---------------------------- MODULE Spec2Model ----------------------------
(***************************************************************************)
(* A model of 3_recommender_system/Recommendation.ipynb: the GraphSAGE     *)
(* layers (GraphSageConv, GraphSageConvWithSampling), the two models that  *)
(* drive them (GraphSage on the full graph, GraphSageWithSampling on a     *)
(* NodeFlow), the feature mixer mix_embeddings and the per-epoch loop that *)
(* shuffles the training edges and builds the neighbour sampler.           *)
(*                                                                         *)
(* Reading of the notebook.  The notebook leaves several names unbound or  *)
(* misspelt (torch is never imported, `troch.cat([h, h_agg, 1])`,          *)
(* `nodes.data['h_x']`, `self.emb` inside the free function                *)
(* mix_embeddings, `super(GraphSageConv, self)` in the sampling classes,   *)
(* `torch.randperm(shuffle_idx)` before shuffle_idx is bound).  Each of    *)
(* these stops the interpreter at that statement on every input, so a      *)
(* literal model has no behaviour past it.  They are read here as the      *)
(* names they stand for (torch.cat([h, h_agg], 1), nodes.data['h'],        *)
(* emb[key], randperm over the number of training edges).  Everything the  *)
(* interpreter would execute is modelled as written: src.split rather than *)
(* src_shuffled.split, h_new.norm(1), the GraphSageConv instances held by  *)
(* GraphSageWithSampling.convs, the attribute loop of mix_embeddings.      *)
(*                                                                         *)
(* Numbers.  Embeddings have feature_size 1 and are exact rationals        *)
(* [n, d]; d = 0 encodes the IEEE specials: 0/0 is not-a-number, 1/0 and   *)
(* -1/0 the infinities.                                                    *)
(***************************************************************************)
EXTENDS Integers, Sequences, FiniteSets, TLC

\* ------------------------------------------------------------------ bounds
MaxEdges == 3      \* training edges in the loop model
MaxBatch == 3      \* batch sizes tried (the notebook sets 1024)
NumEpochs == 50    \* for epoch in range(50)

\* --------------------------------------------------------------- variables
VARIABLES
    lpc,            \* training loop: position in the loop body
    epoch,          \* training loop: the loop variable
    batch_size,     \* training loop: batch_size
    src, dst,       \* training loop: endpoint lists of g_train.all_edges()
    shuffle_idx,    \* training loop: the epoch's permutation
    src_shuffled, dst_shuffled,
    src_batches, dst_batches,
    seed_nodes,     \* training loop: the list [s0, d0, s1, d1, ...]
    sampler,        \* training loop: seed groups the sampler will serve
    visited         \* training loop: the loop positions passed so far

loopVars == <<lpc, epoch, batch_size, src, dst, shuffle_idx, src_shuffled,
              dst_shuffled, src_batches, dst_batches, seed_nodes, sampler,
              visited>>

\* forward passes (GraphSage.forward, GraphSageWithSampling.forward)
VARIABLES
    fpc,            \* position in the forward pass
    mode,           \* "full": GraphSage.forward; "sampled": the NodeFlow pass
    conv,           \* the class of the layers applied to a block
    pred,           \* G: node -> set of in-neighbours (message sources)
    n_layers,       \* number of GraphSAGE layers / sampler hops
    W,              \* convs[i].W: per layer [ws, wa, b] of the affine map
    h,              \* G.ndata['h']
    nf_layers,      \* NodeFlow: the node layers, seeds last
    nf_pred,        \* NodeFlow: per block, node -> its sampled sources
    nf_h,           \* NodeFlow: per layer, the layer's 'h'
    pending,        \* sampler: nodes of the front layer not yet expanded
    blk,            \* next block (or layer of update_all) to compute
    step,           \* what the last aggregation step read and computed
    result          \* the value returned by forward

fwdVars == <<fpc, mode, conv, pred, n_layers, W, h, nf_layers, nf_pred, nf_h,
             pending, blk, step, result>>

\* feature tables (the constructors, the head of forward, mix_embeddings)
VARIABLES
    mpc,            \* position in constructor / forward / mix_embeddings
    attrs,          \* G.node_attr_schemes(): the (name, dtype) in order
    emb_keys,       \* keys of self.emb
    proj_keys,      \* keys of self.proj
    mix_i,          \* mix_embeddings: index of the attribute being read
    mix_result,     \* mix_embeddings: the local `result`, <<>> while unbound
    extra_repr,     \* mix_embeddings: the terms collected so far
    passes          \* forward passes started

mixVars == <<mpc, attrs, emb_keys, proj_keys, mix_i, mix_result, extra_repr,
             passes>>

vars == <<loopVars, fwdVars, mixVars>>

\* ------------------------------------------------------- sequence helpers
Min(a, b) == IF a < b THEN a ELSE b

\* torch.randperm(n): the permutations of 1..n
Perms(n) == {p \in [1..n -> 1..n] : \A i, j \in 1..n : p[i] = p[j] => i = j}

\* tensor[index]: gather
Gather(t, idx) == [i \in 1..Len(idx) |-> t[idx[i]]]

\* Tensor.split(size): consecutive chunks of `size`, the last one shorter
TensorSplit(t, size) ==
    [k \in 1..((Len(t) + size - 1) \div size) |->
        SubSeq(t, (k - 1) * size + 1, Min(k * size, Len(t)))]

RECURSIVE Flatten(_)
Flatten(ss) == IF ss = <<>> THEN <<>> ELSE Head(ss) \o Flatten(Tail(ss))

\* sum([[s, d] for s, d in zip(src_batches, dst_batches)], [])
SeedNodesAllSrcFirst(sb, db) == sb \o db
SeedNodes(sb, db) ==
    [i \in 1..(2 * Min(Len(sb), Len(db))) |->
        IF i % 2 = 1 THEN sb[(i + 1) \div 2] ELSE db[i \div 2]]

\* NeighborSampler(g_train, batch_size * 2, ..., seed_nodes=seed_nodes,
\* shuffle=False): the seeds are served in order, batch_size * 2 at a time
SamplerBatchSize(b) == b * 2
SamplerSeedGroups(seeds, b) == TensorSplit(Flatten(seeds), SamplerBatchSize(b))

\* ------------------------------------------------------------ float model
AbsI(x) == IF x < 0 THEN -x ELSE x
Sgn(x) == IF x < 0 THEN -1 ELSE IF x > 0 THEN 1 ELSE 0

RECURSIVE GCD(_, _)
GCD(a, b) == IF b = 0 THEN a ELSE GCD(b, a % b)

\* the value n/d in lowest terms; d = 0 keeps only the sign of n
Rat(n, d) ==
    IF d = 0 THEN [n |-> Sgn(n), d |-> 0]
    ELSE LET g == GCD(AbsI(n), d) IN [n |-> n \div g, d |-> d \div g]

RInt(k) == [n |-> k, d |-> 1]
Zero == RInt(0)
One == RInt(1)
NaN == [n |-> 0, d |-> 0]
IsNaN(x) == x.d = 0 /\ x.n = 0
IsFinite(x) == x.d # 0

Neg(a) == [n |-> -a.n, d |-> a.d]
Add(a, b) ==
    IF IsNaN(a) \/ IsNaN(b) THEN NaN
    ELSE IF a.d = 0 /\ b.d = 0 THEN (IF a.n = b.n THEN a ELSE NaN)
    ELSE IF a.d = 0 THEN a
    ELSE IF b.d = 0 THEN b
    ELSE LET g == GCD(a.d, b.d)
         IN  Rat(a.n * (b.d \div g) + b.n * (a.d \div g), (a.d \div g) * b.d)
Sub(a, b) == Add(a, Neg(b))
Mul(a, b) ==
    IF a.d = 0 \/ b.d = 0 THEN Rat(a.n * b.n, 0)
    ELSE LET g1 == GCD(AbsI(a.n), b.d)
             g2 == GCD(AbsI(b.n), a.d)
         IN  IF a.n = 0 \/ b.n = 0 THEN Zero
             ELSE Rat((a.n \div g1) * (b.n \div g2),
                      (a.d \div g2) * (b.d \div g1))
Inv(a) ==
    IF a.n > 0 THEN [n |-> a.d, d |-> a.n]
    ELSE IF a.n < 0 THEN [n |-> -a.d, d |-> -a.n]
    ELSE IF a.d = 0 THEN NaN ELSE [n |-> 1, d |-> 0]
Div(a, b) == Mul(a, Inv(b))
\* an/ad < bn/bd for naturals an, bn and positive ad, bd, by comparing the
\* integer parts and then the remainders
RECURSIVE LtPos(_, _, _, _)
LtPos(an, ad, bn, bd) ==
    IF an \div ad # bn \div bd THEN an \div ad < bn \div bd
    ELSE IF bn % bd = 0 THEN FALSE
    ELSE IF an % ad = 0 THEN TRUE
    ELSE LtPos(bd, bn % bd, ad, an % ad)
Lt(a, b) ==
    IF IsNaN(a) \/ IsNaN(b) THEN FALSE
    ELSE IF a.d = 0 /\ b.d = 0 THEN a.n < b.n
    ELSE IF a.d = 0 THEN a.n < 0
    ELSE IF b.d = 0 THEN b.n > 0
    ELSE IF a.n < 0 /\ b.n < 0 THEN LtPos(-b.n, b.d, -a.n, a.d)
    ELSE IF a.n < 0 \/ b.n < 0 THEN a.n < 0
    ELSE LtPos(a.n, a.d, b.n, b.d)
AbsR(a) == [n |-> AbsI(a.n), d |-> a.d]

RECURSIVE SumOver(_, _)
SumOver(f, S) ==
    IF S = {} THEN Zero
    ELSE LET x == CHOOSE y \in S : TRUE IN Add(f[x], SumOver(f, S \ {x}))

\* Tensor.clamp(min=lo); not-a-number stays not-a-number
Clamp(x, lo) == IF Lt(x, lo) THEN lo ELSE x

\* F.leaky_relu, negative_slope 0.01
LeakyRelu(x) == IF Lt(x, Zero) THEN Mul(x, Rat(1, 100)) ELSE x

\* the 1e-6 of clamp(min=1e-6)
Eps == Rat(1, 1000000)

\* safediv(a, b): a / b with the zeros of b replaced by one
safediv(a, b) == Div(a, IF b = Zero THEN One ELSE b)

\* nn.Linear(feature_size * 2, feature_size) on cat([h, h_agg], 1)
Linear(Wt, x, y) == Add(Add(Mul(Wt.ws, x), Mul(Wt.wa, y)), Wt.b)

\* ------------------------------------------------------------- the layers
\* `nodes` is the node batch DGL hands to the layer: batch (the nodes),
\* h (nodes.data['h']), h_agg and w (the reduced messages).

\* GraphSageConv.forward
GraphSageConv_forward(nodes, Wt) ==
    LET B == nodes.batch
        h_agg == [v \in B |-> Div(nodes.h_agg[v], RInt(nodes.w[v]))]
        h_new == [v \in B |-> LeakyRelu(Linear(Wt, nodes.h[v], h_agg[v]))]
        \* h_new.norm(1): the 1-norm of the whole tensor, every row of it
        nrm == Clamp(SumOver([v \in B |-> AbsR(h_new[v])], B), Eps)
    IN  [sub |-> [v \in B |-> Zero],
         den |-> [v \in B |-> RInt(nodes.w[v])],
         mean |-> h_agg,
         h_new |-> h_new,
         normdiv |-> [v \in B |-> nrm],
         out |-> [v \in B |-> Div(h_new[v], nrm)]]

\* GraphSageConvWithSampling.forward
GraphSageConvWithSampling_forward(nodes, Wt) ==
    LET B == nodes.batch
        cnt == [v \in B |-> Sub(RInt(nodes.w[v]), One)]
        h_agg == [v \in B |->
                    safediv(Sub(nodes.h_agg[v], nodes.h[v]), cnt[v])]
        h_new == [v \in B |-> LeakyRelu(Linear(Wt, nodes.h[v], h_agg[v]))]
        \* h_new.norm(dim=1, keepdim=True): each row's own 2-norm
        nrm == [v \in B |-> AbsR(h_new[v])]
    IN  [sub |-> [v \in B |-> nodes.h[v]],
         den |-> [v \in B |-> IF cnt[v] = Zero THEN One ELSE cnt[v]],
         mean |-> h_agg,
         h_new |-> h_new,
         normdiv |-> [v \in B |-> IF nrm[v] = Zero THEN One ELSE nrm[v]],
         out |-> [v \in B |-> safediv(h_new[v], nrm[v])]]

ApplyConv(cls, nodes, Wt) ==
    IF cls = "GraphSageConv" THEN GraphSageConv_forward(nodes, Wt)
    ELSE GraphSageConvWithSampling_forward(nodes, Wt)

\* msg = copy_src('h'), copy_src('one'); red = sum('h' -> 'h_agg'),
\* sum('one' -> 'w'): the node batch of one round of message passing from
\* the sources `srcs` (data inH) to the nodes `B` (data selfH)
Reduce(B, srcs, inH, selfH) ==
    [batch |-> B,
     h |-> [v \in B |-> selfH[v]],
     h_agg |-> [v \in B |-> SumOver(inH, srcs[v])],
     w |-> [v \in B |-> Cardinality(srcs[v])]]

\* ------------------------------------------------------ neighbour sampler
\* the batch-size argument in the fan-out's place
expand_factor_swapped == 1024 * 2
\* NeighborSampler(g_train, batch_size * 2, 5, ...): the fan-out
expand_factor == 5
add_self_loop == TRUE         \* add_self_loop=True  (HACK 1)

Nodes == DOMAIN pred

\* one node's sample: expand_factor of its in-neighbours drawn without
\* replacement, or all of them when it has no more than that
NeighborSample(nbrs) ==
    {S \in SUBSET nbrs : Cardinality(S) = Min(expand_factor, Cardinality(nbrs))}

WithSelfLoop(S, v) == IF add_self_loop THEN S \cup {v} ELSE S

MinOf(S) == CHOOSE x \in S : \A y \in S : x <= y

\* The sampler expands the front layer node by node; when the layer is done
\* the sources found become the next front layer, n_layers times.
SampleNode ==
    /\ fpc = "sample"
    /\ pending # {}
    /\ LET v == MinOf(pending) IN
       \E S \in NeighborSample(pred[v]) :
          LET front == Head(nf_pred) @@ (v :> WithSelfLoop(S, v))
              layer == UNION {front[u] : u \in DOMAIN front}
              done == pending = {v}
              last == done /\ Len(nf_layers) = n_layers
          IN  /\ nf_pred' = IF done /\ ~last
                            THEN <<<<>>, front>> \o Tail(nf_pred)
                            ELSE <<front>> \o Tail(nf_pred)
              /\ nf_layers' = IF done THEN <<layer>> \o nf_layers ELSE nf_layers
              /\ pending' = IF done /\ ~last THEN layer ELSE pending \ {v}
              /\ fpc' = IF last THEN "copy" ELSE "sample"
    /\ UNCHANGED <<mode, conv, pred, n_layers, W, h, nf_h, blk, step, result>>
    /\ UNCHANGED <<loopVars, mixVars>>

\* ----------------------------------------- GraphSageWithSampling.forward
\* Lines 282-285 leave the mixed embedding of every node in G.ndata['h'];
\* the pass is modelled from there (h is that table).

\* line 286: nf.copy_from_parent(): every layer gets the parent's 'h'
CopyFromParent ==
    /\ fpc = "copy"
    /\ mode = "sampled"
    /\ nf_h' = [l \in 1..Len(nf_layers) |-> [v \in nf_layers[l] |-> h[v]]]
    /\ blk' = 1
    /\ fpc' = "compute"
    /\ UNCHANGED <<mode, conv, pred, n_layers, W, h, nf_layers, nf_pred,
                   pending, step, result>>
    /\ UNCHANGED <<loopVars, mixVars>>

\* line 289: nf.block_compute(i, self.msg, self.red, self.convs[i]), i = blk - 1:
\* messages go from layer blk to layer blk + 1, the layer is applied to the
\* nodes of layer blk + 1 and its result replaces their 'h'
BlockCompute ==
    /\ fpc = "compute"
    /\ mode = "sampled"
    /\ LET B == nf_layers[blk + 1]
           nodes == Reduce(B, nf_pred[blk], nf_h[blk], nf_h[blk + 1])
           r == ApplyConv(conv, nodes, W[blk])
       IN  /\ nf_h' = [nf_h EXCEPT ![blk + 1] = r.out]
           /\ step' = [blk |-> blk, cls |-> conv, batch |-> B,
                       srcs |-> nf_pred[blk], inH |-> nf_h[blk],
                       nodes |-> nodes, r |-> r]
    /\ blk' = blk + 1
    /\ fpc' = IF blk = n_layers THEN "check" ELSE "compute"
    /\ UNCHANGED <<mode, conv, pred, n_layers, W, h, nf_layers, nf_pred,
                   pending, result>>
    /\ UNCHANGED <<loopVars, mixVars>>

\* lines 291-293
NoNaNFirstRowOnly(res) ==
    DOMAIN res = {} \/ ~IsNaN(res[MinOf(DOMAIN res)])
\* (result != result).sum() == 0
NoNaN(res) == \A v \in DOMAIN res : ~IsNaN(res[v])

CheckResult ==
    /\ fpc = "check"
    /\ mode = "sampled"
    /\ LET res == nf_h[Len(nf_layers)] IN
          IF NoNaN(res)
          THEN /\ result' = res
               /\ fpc' = "returned"
          ELSE /\ result' = "none"
               /\ fpc' = "AssertionError"
    /\ UNCHANGED <<mode, conv, pred, n_layers, W, h, nf_layers, nf_pred, nf_h,
                   pending, blk, step>>
    /\ UNCHANGED <<loopVars, mixVars>>

\* ------------------------------------------------------ GraphSage.forward
\* line 196: self.G.update_all(self.msg_funcs, self.reduce_funcs, self.convs[i]):
\* every node receives from its in-neighbours; a node without any gets the
\* zero-filled h_agg and w
UpdateAll ==
    /\ fpc = "compute"
    /\ mode = "full"
    /\ LET nodes == Reduce(Nodes, pred, h, h)
           r == GraphSageConv_forward(nodes, W[blk])
       IN  /\ h' = r.out
           /\ step' = [blk |-> blk, cls |-> "GraphSageConv", batch |-> Nodes,
                       srcs |-> pred, inH |-> h, nodes |-> nodes, r |-> r]
    /\ blk' = blk + 1
    /\ fpc' = IF blk = n_layers THEN "return" ELSE "compute"
    /\ UNCHANGED <<mode, conv, pred, n_layers, W, nf_layers, nf_pred, nf_h,
                   pending, result>>
    /\ UNCHANGED <<loopVars, mixVars>>

\* line 197
ReturnFull ==
    /\ fpc = "return"
    /\ mode = "full"
    /\ result' = h
    /\ fpc' = "returned"
    /\ UNCHANGED <<mode, conv, pred, n_layers, W, h, nf_layers, nf_pred, nf_h,
                   pending, blk, step>>
    /\ UNCHANGED <<loopVars, mixVars>>

\* ---------------------------------------------------------- training loop
IdleLoop ==
    /\ lpc = "idle"
    /\ epoch = 0
    /\ batch_size = 1
    /\ src = <<>>
    /\ dst = <<>>
    /\ shuffle_idx = <<>>
    /\ src_shuffled = <<>>
    /\ dst_shuffled = <<>>
    /\ src_batches = <<>>
    /\ dst_batches = <<>>
    /\ seed_nodes = <<>>
    /\ sampler = <<>>
    /\ visited = {}

IdleForward ==
    /\ fpc = "idle"
    /\ mode = "none"
    /\ conv = "none"
    /\ pred = <<>>
    /\ n_layers = 0
    /\ W = <<>>
    /\ h = <<>>
    /\ nf_layers = <<>>
    /\ nf_pred = <<>>
    /\ nf_h = <<>>
    /\ pending = {}
    /\ blk = 0
    /\ step = [blk |-> 0]
    /\ result = "none"

IdleMix ==
    /\ mpc = "idle"
    /\ attrs = <<>>
    /\ emb_keys = {}
    /\ proj_keys = {}
    /\ mix_i = 0
    /\ mix_result = <<>>
    /\ extra_repr = <<>>
    /\ passes = 0

InitLoop ==
    /\ IdleForward
    /\ IdleMix
    /\ lpc = "epoch-start"
    /\ epoch = 0
    /\ batch_size \in 1..MaxBatch
    /\ \E n \in 1..MaxEdges :
          /\ src = [i \in 1..n |-> i]
          /\ dst = [i \in 1..n |-> MaxEdges + 1 + i]
    /\ shuffle_idx = <<>>
    /\ src_shuffled = <<>>
    /\ dst_shuffled = <<>>
    /\ src_batches = <<>>
    /\ dst_batches = <<>>
    /\ seed_nodes = <<>>
    /\ sampler = <<>>
    /\ visited = {"epoch-start"}

\* lines 303-305
Shuffle ==
    /\ lpc = "epoch-start"
    /\ epoch < NumEpochs
    /\ \E p \in Perms(Len(src)) :
          /\ shuffle_idx' = p
          /\ src_shuffled' = Gather(src, p)
          /\ dst_shuffled' = Gather(dst, p)
    /\ lpc' = "split"
    /\ visited' = visited \cup {"split"}
    /\ UNCHANGED <<epoch, batch_size, src, dst, src_batches, dst_batches,
                   seed_nodes, sampler>>
    /\ UNCHANGED <<fwdVars, mixVars>>

\* lines 306-307
SplitBatches ==
    /\ lpc = "split"
    /\ src_batches' = TensorSplit(src, batch_size)
    /\ dst_batches' = TensorSplit(dst, batch_size)
    /\ lpc' = "seeds"
    /\ visited' = visited \cup {"seeds"}
    /\ UNCHANGED <<epoch, batch_size, src, dst, shuffle_idx, src_shuffled,
                   dst_shuffled, seed_nodes, sampler>>
    /\ UNCHANGED <<fwdVars, mixVars>>

\* line 311
BuildSeedNodes ==
    /\ lpc = "seeds"
    /\ seed_nodes' = SeedNodes(src_batches, dst_batches)
    /\ lpc' = "sampler"
    /\ visited' = visited \cup {"sampler"}
    /\ UNCHANGED <<epoch, batch_size, src, dst, shuffle_idx, src_shuffled,
                   dst_shuffled, src_batches, dst_batches, sampler>>
    /\ UNCHANGED <<fwdVars, mixVars>>

\* lines 313-322: the last statement of the loop body; the loop variable
\* advances
MakeSampler ==
    /\ lpc = "sampler"
    /\ sampler' = SamplerSeedGroups(seed_nodes, batch_size)
    /\ epoch' = epoch + 1
    /\ lpc' = "epoch-start"
    /\ UNCHANGED <<batch_size, src, dst, shuffle_idx, src_shuffled,
                   dst_shuffled, src_batches, dst_batches, seed_nodes, visited>>
    /\ UNCHANGED <<fwdVars, mixVars>>

\* range(50) is exhausted
LoopDone ==
    /\ lpc = "epoch-start"
    /\ epoch = NumEpochs
    /\ lpc' = "done"
    /\ visited' = visited \cup {"done"}
    /\ UNCHANGED <<epoch, batch_size, src, dst, shuffle_idx, src_shuffled,
                   dst_shuffled, src_batches, dst_batches, seed_nodes, sampler>>
    /\ UNCHANGED <<fwdVars, mixVars>>

NextLoop == Shuffle \/ SplitBatches \/ BuildSeedNodes \/ MakeSampler \/ LoopDone

SpecLoop == InitLoop /\ [][NextLoop]_vars

\* --------------------------------------------------------- forward passes
MaxLayers == 2     \* n_layers tried

\* G on three nodes (users 1 and 2, item 3), every rating an edge each way
Graphs ==
    { (1 :> {}) @@ (2 :> {}) @@ (3 :> {}),
      (1 :> {3}) @@ (2 :> {}) @@ (3 :> {1}),
      (1 :> {3}) @@ (2 :> {3}) @@ (3 :> {1, 2}) }

SeedSets == { {1, 3}, {2}, {2, 3} }

\* the values of node_emb plus the mixed features that the passes start from
Vals == { RInt(0), RInt(1), RInt(2), NaN }

Weights == { [ws |-> RInt(1), wa |-> RInt(1), b |-> RInt(0)],
             [ws |-> RInt(1), wa |-> RInt(-1), b |-> RInt(1)] }

InitForward ==
    /\ IdleLoop
    /\ IdleMix
    /\ pred \in Graphs
    /\ n_layers \in 1..MaxLayers
    /\ W \in [1..n_layers -> Weights]
    /\ h \in [DOMAIN pred -> Vals]
    /\ step = [blk |-> 0]
    /\ result = "none"
    /\ nf_h = <<>>
    /\ \/ /\ mode = "sampled"
          \* line 252 builds the layers of GraphSageWithSampling from
          \* GraphSageConv; GraphSageConvWithSampling is the layer written
          \* for NodeFlow blocks
          /\ conv \in {"GraphSageConv", "GraphSageConvWithSampling"}
          /\ \E seeds \in SeedSets :
                /\ nf_layers = <<seeds>>
                /\ pending = seeds
          /\ nf_pred = << <<>> >>
          /\ blk = 0
          /\ fpc = "sample"
       \/ /\ mode = "full"
          /\ conv = "GraphSageConv"
          /\ nf_layers = <<>>
          /\ nf_pred = <<>>
          /\ pending = {}
          /\ blk = 1
          /\ fpc = "compute"

NextForward ==
    SampleNode \/ CopyFromParent \/ BlockCompute \/ CheckResult
    \/ UpdateAll \/ ReturnFull

SpecForward == InitForward /\ [][NextForward]_vars

\* ------------------------------------------------- the sampler on its own
NumLeaves == 6     \* largest degree tried: more than expand_factor

\* g_train as a star: user 1 rated items 2..1+d (an edge each way); the
\* other nodes have no training edge
StarGraph(d) ==
    [v \in 1..(NumLeaves + 1) |->
        IF v = 1 THEN 2..(1 + d) ELSE IF v <= 1 + d THEN {1} ELSE {}]

InitSampler ==
    /\ IdleLoop
    /\ IdleMix
    /\ \E d \in 0..NumLeaves : pred = StarGraph(d)
    /\ n_layers \in 1..MaxLayers
    /\ mode = "sampled"
    /\ conv = "none"
    /\ W = <<>>
    /\ h = <<>>
    /\ \E seeds \in { {1}, {2}, {1, 2} } :
          /\ nf_layers = <<seeds>>
          /\ pending = seeds
    /\ nf_pred = << <<>> >>
    /\ nf_h = <<>>
    /\ blk = 0
    /\ fpc = "sample"
    /\ step = [blk |-> 0]
    /\ result = "none"

NextSampler == SampleNode

SpecSampler == InitSampler /\ [][NextSampler]_vars

\* ---------------------------------------------------------- feature mixer
MaxFeatures == 2   \* raw node features on G
MaxPasses == 2     \* forward passes per model

FeatureNames == {"age", "genre", "title"}
\* int64: categorical, looked up in emb; float32: numeric, projected by proj;
\* any other dtype matches neither branch
DTypes == {"int64", "float32", "float64"}

AttrNames == {attrs[i].name : i \in 1..Len(attrs)}

\* G.ndata[key] = value: a new column goes last, an existing one keeps its
\* place
SetColumn(schemes, key, dtype) ==
    IF \E i \in 1..Len(schemes) : schemes[i].name = key
    THEN [i \in 1..Len(schemes) |->
            IF schemes[i].name = key THEN [name |-> key, dtype |-> dtype]
            ELSE schemes[i]]
    ELSE Append(schemes, [name |-> key, dtype |-> dtype])

InitMix ==
    /\ IdleLoop
    /\ IdleForward
    /\ mpc = "construct"
    /\ \E k \in 0..MaxFeatures :
          attrs \in {a \in [1..k -> [name : FeatureNames, dtype : DTypes]] :
                        \A i, j \in 1..k : a[i].name = a[j].name => i = j}
    /\ emb_keys = {}
    /\ proj_keys = {}
    /\ mix_i = 0
    /\ mix_result = <<>>
    /\ extra_repr = <<>>
    /\ passes = 0

\* GraphSage.__init__ lines 175-182 (GraphSageWithSampling.__init__ lines
\* 254-267 alike): one table per attribute G has at construction
TableKeys(schemes, dtype) ==
    {schemes[i].name : i \in {j \in 1..Len(schemes) : schemes[j].dtype = dtype}}

Construct ==
    /\ mpc = "construct"
    /\ emb_keys' = TableKeys(attrs, "int64")
    /\ proj_keys' = TableKeys(attrs, "float32")
    /\ mpc' = "ready"
    /\ UNCHANGED <<attrs, mix_i, mix_result, extra_repr, passes>>
    /\ UNCHANGED <<loopVars, fwdVars>>

\* forward, lines 191-194 (282-285): G.ndata['h'] and G.ndata['one'] are
\* assigned, both float32, then mix_embeddings is entered.  Nothing catches
\* an exception of an earlier pass, but forward can be called again.
ForwardAssign ==
    /\ mpc \in {"ready", "mixed", "KeyError", "UnboundLocalError"}
    /\ passes < MaxPasses
    /\ passes' = passes + 1
    /\ attrs' = SetColumn(SetColumn(attrs, "h", "float32"), "one", "float32")
    /\ mix_i' = 1
    /\ mix_result' = <<>>
    /\ extra_repr' = <<>>
    /\ mpc' = "mix"
    /\ UNCHANGED <<emb_keys, proj_keys>>
    /\ UNCHANGED <<loopVars, fwdVars>>

\* mix_embeddings, lines 131-141: one turn of the loop over
\* G.node_attr_schemes().items(); after the last attribute the terms are
\* summed into G.ndata['h']
MixStep ==
    /\ mpc = "mix"
    /\ LET key == attrs[mix_i].name
           dtype == attrs[mix_i].dtype
           res == IF dtype = "int64" THEN <<"emb", key>>
                  ELSE IF dtype = "float32" THEN <<"proj", key>>
                  ELSE mix_result
           missing == \/ dtype = "int64" /\ key \notin emb_keys
                      \/ dtype = "float32" /\ key \notin proj_keys
       IN  IF missing
           THEN /\ mpc' = "KeyError"
                /\ UNCHANGED <<mix_i, mix_result, extra_repr>>
           ELSE IF res = <<>>
           THEN /\ mpc' = "UnboundLocalError"
                /\ UNCHANGED <<mix_i, mix_result, extra_repr>>
           ELSE /\ mix_result' = res
                /\ extra_repr' = Append(extra_repr, res)
                /\ mix_i' = mix_i + 1
                /\ mpc' = IF mix_i = Len(attrs) THEN "mixed" ELSE "mix"
    /\ UNCHANGED <<attrs, emb_keys, proj_keys, passes>>
    /\ UNCHANGED <<loopVars, fwdVars>>

NextMix == Construct \/ ForwardAssign \/ MixStep

SpecMix == InitMix /\ [][NextMix]_vars

\* ================================================================= claims
\* The last aggregation step read only finite numbers.
StepInputsFinite ==
    /\ \A u \in DOMAIN step.inH : IsFinite(step.inH[u])
    /\ \A v \in step.batch : IsFinite(step.nodes.h[v])

\* The sampled sources of v without its injected self-loop.
TrueNeighbours(v) == step.srcs[v] \ {v}

\* C1 (as claimed): in a sampled pass, at every block, the layer subtracts
\* from the neighbour sum exactly the message the node's self-loop put into
\* it, divides by the count less one, and so its mean is the mean of the
\* true sampled neighbours.  Stated for GraphSageConvWithSampling, the layer
\* the claim cites.
C1_SelfLoopCorrection ==
    (mode = "sampled" /\ step.blk > 0
        /\ step.cls = "GraphSageConvWithSampling" /\ StepInputsFinite)
    => \A v \in step.batch :
          /\ step.r.sub[v] = step.inH[v]
          /\ TrueNeighbours(v) # {} =>
                /\ step.r.den[v] = RInt(Cardinality(TrueNeighbours(v)))
                /\ step.r.mean[v] =
                      Div(SumOver(step.inH, TrueNeighbours(v)),
                          RInt(Cardinality(TrueNeighbours(v))))

\* The count the layer divides the neighbour sum by: w in GraphSageConv,
\* w - 1 in GraphSageConvWithSampling.
DivisorCount(v) ==
    IF step.cls = "GraphSageConv" THEN step.nodes.w[v] ELSE step.nodes.w[v] - 1

\* C2 (as claimed): in every aggregation step of either layer, a node whose
\* neighbour count is zero is not divided by zero and gets a defined
\* embedding, not not-a-number.
C2_ZeroNeighbourGuard ==
    (step.blk > 0 /\ StepInputsFinite)
    => \A v \in step.batch :
          DivisorCount(v) = 0 =>
             /\ step.r.den[v] # Zero
             /\ ~IsNaN(step.r.mean[v])
             /\ ~IsNaN(step.r.out[v])

\* C6 (as claimed): after every aggregation step of either layer each node's
\* new embedding is its transformed vector over its own 2-norm clamped from
\* below by epsilon, so a non-degenerate embedding has norm one.
C6_Normalized ==
    (step.blk > 0 /\ \A u \in step.batch : IsFinite(step.r.h_new[u]))
    => \A v \in step.batch :
             /\ step.r.out[v] =
                   Div(step.r.h_new[v], Clamp(AbsR(step.r.h_new[v]), Eps))
             /\ ~Lt(AbsR(step.r.h_new[v]), Eps) => AbsR(step.r.out[v]) = One

\* The seed layer's 'h' once every block has been computed.
FinalLayer == nf_h[Len(nf_layers)]

\* C9: a sampled forward pass ends in AssertionError without a result
\* exactly when some component of the seed layer's output is not-a-number,
\* and otherwise returns that output unchanged.
C9_NaNIsFatal ==
    /\ (mode = "sampled" /\ fpc = "AssertionError") =>
          /\ \E v \in DOMAIN FinalLayer : IsNaN(FinalLayer[v])
          /\ result = "none"
    /\ (mode = "sampled" /\ fpc = "returned") =>
          /\ \A v \in DOMAIN FinalLayer : ~IsNaN(FinalLayer[v])
          /\ result = FinalLayer

\* a two-block pass over a graph with an edge whose first block left some
\* seed finite and whose output has a not-a-number component
C9_Witness ==
    /\ mode = "sampled"
    /\ fpc = "AssertionError"
    /\ n_layers = 2
    /\ \E v \in DOMAIN FinalLayer : IsNaN(FinalLayer[v])
    /\ \E v \in DOMAIN FinalLayer : ~IsNaN(FinalLayer[v])

C4_BatchesFollowShuffle ==
    lpc \in {"seeds", "sampler"} =>
        \A k \in 1..Len(src_batches) : \A i \in 1..Len(src_batches[k]) :
            /\ src_batches[k][i] = src[shuffle_idx[(k - 1) * batch_size + i]]
            /\ dst_batches[k][i] = dst[shuffle_idx[(k - 1) * batch_size + i]]

\* C7 (as claimed): the loop is done only after its fifty epochs have run
\* their batches through forward and loss+backward and then validation.
C7_DoneAfterTraining ==
    lpc = "done" =>
        /\ epoch = NumEpochs
        /\ {"forward", "loss+backward", "validation"} \subseteq visited

\* ---------------------------------------------------------------- sampler
\* C5: every node the sampler has expanded, at every layer transition, got
\* sampled neighbours that are neighbours of it in g_train: at most 5 of
\* them when it has more than 5, and all of them otherwise.
C5_FanOutBound ==
    \A b \in 1..Len(nf_pred) : \A v \in DOMAIN nf_pred[b] :
        LET S == nf_pred[b][v] \ {v} IN
        /\ S \subseteq pred[v]
        /\ Cardinality(pred[v]) > 5 => Cardinality(S) <= 5
        /\ Cardinality(pred[v]) <= 5 => S = pred[v]

\* a node of degree above 5 expanded at two layer transitions, and a node of
\* degree at most 5 expanded too
C5_Witness ==
    /\ Len(nf_pred) = 2
    /\ \E v \in DOMAIN nf_pred[1] \cap DOMAIN nf_pred[2] :
          Cardinality(pred[v]) > 5
    /\ \E v \in DOMAIN nf_pred[1] : Cardinality(pred[v]) \in 1..5

\* ------------------------------------------------------------------ mixer
\* the raw features of G all have a dtype the constructor makes a table for
RawFeaturesTyped ==
    \A i \in 1..Len(attrs) :
        attrs[i].name \in FeatureNames => attrs[i].dtype \in {"int64", "float32"}

\* C10 (as claimed): in every forward pass the attributes mix_embeddings
\* iterates over are exactly those the constructor made a table for ('h' and
\* 'one' are not among them), no attribute lacks its table, and a completed
\* mix has one term per raw feature.
C10_MixerSeesRawFeaturesOnly ==
    RawFeaturesTyped =>
        /\ mpc \in {"mix", "mixed"} => AttrNames = emb_keys \cup proj_keys
        /\ mpc # "KeyError"
        /\ mpc = "mixed" => Len(extra_repr) = Cardinality(emb_keys \cup proj_keys)

=============================================================================
